---- MODULE Spec2Model ----
(***************************************************************************)
(* Model of metropolis_hastings (src/python/mcmc.py).                      *)
(*                                                                         *)
(* One call of the function is the sequence Raise* | Start, Step*, Return. *)
(* The caller-supplied callables are inputs: log_likelihood and log_prior  *)
(* are tables from chain states to doubles, the proposal is a random walk  *)
(* on the chain states driven by the random stream, and the process-wide   *)
(* numpy random stream is a tape that is generated on first use and        *)
(* replayed when the generator is re-seeded (Reseed) for a second call.    *)
(*                                                                         *)
(* Doubles.  A log score is a record [k, n, t]: k = "fin" stands for the   *)
(* double n + t * 2^-60 (n, t small integers, t = 0 unless n = 0), and     *)
(* k = "ninf", "pinf", "nan" for -inf, +inf and NaN.  The acceptance ratio *)
(* and the uniform draws are only ever compared, so they are kept on an    *)
(* order-preserving grid of thousandths: 0 is 0.0, 135 is np.exp(-2.0),    *)
(* 368 is np.exp(-1.0), 1000 is 1.0, 2718 is np.exp(1.0), 7389 is          *)
(* np.exp(2.0), and [nan |-> TRUE] is NaN.                                 *)
(***************************************************************************)
EXTENDS Integers, Sequences, FiniteSets, TLC

\* ---------------------------------------------------------------- bounds
MaxSamples == 3

MaxState == 1

BurnDen == 4

States == 0..MaxState

\* ------------------------------------------------------- double arithmetic
Fin(n, t) == [k |-> "fin", n |-> n, t |-> t]

NInf == [k |-> "ninf", n |-> 0, t |-> 0]

PInf == [k |-> "pinf", n |-> 0, t |-> 0]

NaN == [k |-> "nan", n |-> 0, t |-> 0]

\* p + q in IEEE double arithmetic: a tiny addend is absorbed by a non-zero
\* integer, inf + (-inf) is NaN.
FAdd(p, q) ==
  IF p.k = "nan" \/ q.k = "nan" THEN NaN
  ELSE IF (p.k = "pinf" /\ q.k = "ninf") \/ (p.k = "ninf" /\ q.k = "pinf") THEN NaN
  ELSE IF p.k = "pinf" \/ q.k = "pinf" THEN PInf
  ELSE IF p.k = "ninf" \/ q.k = "ninf" THEN NInf
  ELSE IF p.n + q.n # 0 THEN Fin(p.n + q.n, 0)
  ELSE Fin(0, p.t + q.t)

\* p - q in IEEE double arithmetic, which is p + (-q).
FSub(p, q) ==
  FAdd(p, IF q.k = "pinf" THEN NInf
          ELSE IF q.k = "ninf" THEN PInf
          ELSE IF q.k = "nan" THEN NaN
          ELSE Fin(0 - q.n, 0 - q.t))

FLess0(d) == d.k = "ninf" \/ (d.k = "fin" /\ (d.n < 0 \/ (d.n = 0 /\ d.t < 0)))

FGeq0(d) == d.k = "pinf" \/ (d.k = "fin" /\ (d.n > 0 \/ (d.n = 0 /\ d.t >= 0)))

Ratio(v) == [nan |-> FALSE, v |-> v]

\* np.exp on doubles: exp(+-t * 2^-60) rounds to 1.0, exp(-inf) is 0.0,
\* exp(+inf) is +inf (kept as 1000000), exp(NaN) is NaN.
NpExp(d) ==
  IF d.k = "nan" THEN [nan |-> TRUE, v |-> 0]
  ELSE IF d.k = "ninf" THEN Ratio(0)
  ELSE IF d.k = "pinf" THEN Ratio(1000000)
  ELSE CASE d.n = 0 -> Ratio(1000)
         [] d.n = -1 -> Ratio(368)
         [] d.n = -2 -> Ratio(135)
         [] d.n = 1 -> Ratio(2718)
         [] d.n = 2 -> Ratio(7389)

\* a >= 1 on doubles (False when a is NaN).
GeqOne(a) == ~a.nan /\ a.v >= 1000

\* ------------------------------------------------------------- the inputs
\* Values log_likelihood returns away from its mode: -1.0 and -2^-60.
LLVals == {Fin(-1, 0), Fin(0, -1)}

\* The caller's log_likelihood: 0.0 at the mode, one lower value elsewhere.
LLTables ==
  {[s \in States |-> IF s = m THEN Fin(0, 0) ELSE low] : m \in States, low \in LLVals}

\* The caller's log_prior, uniform on the support 0..hi: 0.0 inside the
\* support, -inf outside (hi = -1 is the empty support).
LPTables ==
  {[s \in States |-> IF s <= hi THEN Fin(0, 0) ELSE NInf] : hi \in -1..MaxState}

\* Values the uniform source yields, on the grid of thousandths: 0.0,
\* the double np.exp(-1.0), and 1.0.
UGrid == <<0, 368, 1000>>

\* Values the random stream yields to the proposal: stay, or move on.
Moves == {0, 1}

Kinds == {"scalar", "ndarray1", "ndarray2", "other"}

Args ==
  [x_init : [kind : Kinds, val : States],
   samples : -1..MaxSamples,
   burn_num : -1..(BurnDen + 1),
   log_likelihood : LLTables,
   log_prior : LPTables]

\* args         the arguments of the call (lines 4-5)
\* run          1 for the first call, 2 for the call after re-seeding
\* pc           "entry", "loop", "raised" (lines 49, 53, 57), "returned" (102)
\* x, i, burn_in_idx, accepted, rejected
\*              the locals of the same names (lines 62-69)
\* tape, pos    the np.random stream: the values it has yielded since the
\*              seed, and how many of them this call has consumed
\* calls        how often this call invoked proposal, posterior and
\*              np.random.uniform
\* hist         history: one record per finished iteration of this call
\* accSteps, rejSteps
\*              history: the iteration of each accepted.append and
\*              rejected.append
\* prev         the arguments, steps and result of the first call
VARIABLES args, run, pc, x, i, burn_in_idx, accepted, rejected,
          tape, pos, calls, hist, accSteps, rejSteps, prev

vars == <<args, run, pc, x, i, burn_in_idx, accepted, rejected,
          tape, pos, calls, hist, accSteps, rejSteps, prev>>

\* ------------------------------------------------------------ the function
posterior(beta) == FAdd(args.log_likelihood[beta], args.log_prior[beta])

XInitInvalid(x_init) == x_init.kind = "ndarray2"

SamplesInvalidNegativeOnly(samples) == samples < 0

SamplesInvalid(samples) == samples < 1

BurnInInvalid(burn_num) == burn_num < 0 \/ burn_num > BurnDen

\* int(samples * burn_in) with burn_in = burn_num / BurnDen.
BurnInIdx(samples, burn_num) == (samples * burn_num) \div BurnDen

StartListsKept(old) == old

StartLists(old) == <<>>

LoopDoneLate(ii, samples) == ii > samples

LoopDone(ii, samples) == ii >= samples

\* The caller's proposal: a random walk round the chain states.
Proposal(xc, raw) == (xc + raw) % (MaxState + 1)

DrawAlways(a) == TRUE

DrawNeeded(a) == ~GeqOne(a)

AcceptsOnEqual(a, u) == IF GeqOne(a) THEN TRUE ELSE ~a.nan /\ u <= a.v

\* The decision of one step; u is read only when a draw was needed.
Accepts(a, u) == IF GeqOne(a) THEN TRUE ELSE ~a.nan /\ u < a.v

NextXWhenRecorded(xc, cand, acc) == IF acc /\ i >= burn_in_idx THEN cand ELSE xc

NextXAlways(xc, cand, acc) == cand

NextX(xc, cand, acc) == IF acc THEN cand ELSE xc

RecordEarly(ii, idx) == ii + 1 >= idx

RecordStrict(ii, idx) == ii > idx

Record(ii, idx) == ii >= idx

\* The next value of the random stream at position p: replayed from the tape
\* when the stream has been there before, any value of S otherwise.
Draws(p, S) == IF p < Len(tape) THEN {tape[p + 1]} ELSE S

Extend(tp, p, v) == IF p < Len(tp) THEN tp ELSE Append(tp, v)

NoCalls == [proposal |-> 0, posterior |-> 0, uniform |-> 0]

Init ==
  /\ args \in Args
  /\ run = 1
  /\ pc = "entry"
  /\ x = 0
  /\ i = 0
  /\ burn_in_idx = 0
  /\ accepted = <<>>
  /\ rejected = <<>>
  /\ tape = <<>>
  /\ pos = 0
  /\ calls = NoCalls
  /\ hist = <<>>
  /\ accSteps = <<>>
  /\ rejSteps = <<>>
  /\ prev = [set |-> FALSE]

Raise ==
  /\ pc' = "raised"
  /\ UNCHANGED <<args, run, x, i, burn_in_idx, accepted, rejected,
                 tape, pos, calls, hist, accSteps, rejSteps, prev>>

RaiseXInit ==
  /\ pc = "entry"
  /\ XInitInvalid(args.x_init)
  /\ Raise

RaiseSamples ==
  /\ pc = "entry"
  /\ ~XInitInvalid(args.x_init)
  /\ SamplesInvalid(args.samples)
  /\ Raise

RaiseBurnIn ==
  /\ pc = "entry"
  /\ ~XInitInvalid(args.x_init)
  /\ ~SamplesInvalid(args.samples)
  /\ BurnInInvalid(args.burn_num)
  /\ Raise

Start ==
  /\ pc = "entry"
  /\ ~XInitInvalid(args.x_init)
  /\ ~SamplesInvalid(args.samples)
  /\ ~BurnInInvalid(args.burn_num)
  /\ rejected' = StartLists(rejected)
  /\ accepted' = StartLists(accepted)
  /\ x' = args.x_init.val
  /\ burn_in_idx' = BurnInIdx(args.samples, args.burn_num)
  /\ i' = 1
  /\ pc' = "loop"
  /\ hist' = <<>>
  /\ accSteps' = <<>>
  /\ rejSteps' = <<>>
  /\ UNCHANGED <<args, run, tape, pos, calls, prev>>

\* One iteration of the loop.  The locals of the iteration are bound once,
\* as values, by quantifying over singleton sets.
Step ==
  /\ pc = "loop"
  /\ ~LoopDone(i, args.samples)
  /\ \E r1 \in Draws(pos, Moves) :
     \E x_candidate \in {Proposal(x, r1)} :
     \E post_c \in {posterior(x_candidate)} :
     \E post_x \in {posterior(x)} :
     \E delta \in {FSub(post_c, post_x)} :
     \E a \in {NpExp(delta)} :
     \E drew \in {DrawNeeded(a)} :
     \E r2 \in IF drew THEN Draws(pos + 1, 0..(Len(UGrid) - 1)) ELSE {0} :
     \E u \in {UGrid[r2 + 1]} :
     \E acc \in {Accepts(a, u)} :
     \E keep \in {Record(i, burn_in_idx)} :
     \E tape1 \in {Extend(tape, pos, r1)} :
       /\ x' = NextX(x, x_candidate, acc)
       /\ accepted' = IF acc /\ keep THEN Append(accepted, x_candidate)
                      ELSE accepted
       /\ rejected' = IF ~acc /\ keep THEN Append(rejected, x_candidate)
                      ELSE rejected
       /\ accSteps' = IF acc /\ keep THEN Append(accSteps, i) ELSE accSteps
       /\ rejSteps' = IF ~acc /\ keep THEN Append(rejSteps, i) ELSE rejSteps
       /\ tape' = IF drew THEN Extend(tape1, pos + 1, r2) ELSE tape1
       /\ pos' = IF drew THEN pos + 2 ELSE pos + 1
       /\ calls' = [proposal |-> calls.proposal + 1,
                    posterior |-> calls.posterior + 2,
                    uniform |-> calls.uniform + (IF drew THEN 1 ELSE 0)]
       /\ hist' = Append(hist,
                    [i |-> i, from |-> x, cand |-> x_candidate,
                     delta |-> delta, a |-> a, drew |-> drew,
                     u |-> IF drew THEN u ELSE -1, accept |-> acc,
                     x |-> NextX(x, x_candidate, acc),
                     nacc |-> Len(accepted) + (IF acc /\ keep THEN 1 ELSE 0),
                     nrej |-> Len(rejected) + (IF ~acc /\ keep THEN 1 ELSE 0)])
  /\ i' = i + 1
  /\ UNCHANGED <<args, run, pc, burn_in_idx, prev>>

Return ==
  /\ pc = "loop"
  /\ LoopDone(i, args.samples)
  /\ pc' = "returned"
  /\ UNCHANGED <<args, run, x, i, burn_in_idx, accepted, rejected,
                 tape, pos, calls, hist, accSteps, rejSteps, prev>>

\* The caller re-seeds the generator and calls again with the same callables,
\* initial state and sample count, and with the same burn_in or with none.
Reseed ==
  /\ pc = "returned"
  /\ run = 1
  /\ \E b \in {args.burn_num, 0} : args' = [args EXCEPT !.burn_num = b]
  /\ prev' = [set |-> TRUE, args |-> args, accepted |-> accepted,
              rejected |-> rejected, hist |-> hist, calls |-> calls]
  /\ run' = 2
  /\ pc' = "entry"
  /\ pos' = 0
  /\ calls' = NoCalls
  /\ UNCHANGED <<x, i, burn_in_idx, accepted, rejected, tape, hist,
                 accSteps, rejSteps>>

Next ==
  \/ RaiseXInit
  \/ RaiseSamples
  \/ RaiseBurnIn
  \/ Start
  \/ Step
  \/ Return
  \/ Reseed

Spec == Init /\ [][Next]_vars

\* The calls on a Gaussian-like target: the prior supports every state and
\* the log likelihood is 0.0 at its mode and -1.0 elsewhere.
FairInit ==
  /\ Init
  /\ args.x_init.val = 0
  /\ \A s \in States : args.log_prior[s] = Fin(0, 0)
  /\ \E s \in States : args.log_likelihood[s] = Fin(-1, 0)

\* A call that has not raised or returned takes its next step.
FairSpec == FairInit /\ [][Next]_vars /\ WF_vars(Next)

\* ------------------------------------------------------------- properties
InCall == pc \in {"loop", "returned"}

Steps == 1..Len(hist)

\* The recorded lists carry the candidates of the steps tagged in
\* accSteps and rejSteps.
Tagged ==
  /\ Len(accSteps) = Len(accepted)
  /\ Len(rejSteps) = Len(rejected)
  /\ \A k \in 1..Len(accSteps) :
       accSteps[k] \in Steps /\ accepted[k] = hist[accSteps[k]].cand
  /\ \A k \in 1..Len(rejSteps) :
       rejSteps[k] \in Steps /\ rejected[k] = hist[rejSteps[k]].cand

TimesIn(seq, j) == Cardinality({k \in 1..Len(seq) : seq[k] = j})

\* C1: no candidate of a step i < floor(samples * burn_in) is in accepted or
\* in rejected, in any state of a call; with burn_in = 1 both returned
\* sequences are empty.
C1_BurnInExcluded ==
  InCall =>
    /\ Tagged
    /\ \A k \in 1..Len(accSteps) :
         accSteps[k] >= (args.samples * args.burn_num) \div BurnDen
    /\ \A k \in 1..Len(rejSteps) :
         rejSteps[k] >= (args.samples * args.burn_num) \div BurnDen
    /\ (pc = "returned" /\ args.burn_num = BurnDen =>
          accepted = <<>> /\ rejected = <<>>)

C1_Witness ==
  /\ pc = "returned"
  /\ args.samples = 3
  /\ burn_in_idx = 2
  /\ hist[1].accept
  /\ Len(accepted) + Len(rejected) = 1

\* C2: every step i >= burn_in_idx puts its candidate in exactly one of the
\* two sequences, accepted if the step accepted and rejected otherwise; at
\* return the combined length is samples - 1 minus the number of steps
\* before burn_in_idx, and samples - 1 when burn_in = 0.
C2_Partition ==
  InCall =>
    /\ Tagged
    /\ \A j \in Steps :
         hist[j].i >= burn_in_idx =>
           /\ TimesIn(accSteps, j) = (IF hist[j].accept THEN 1 ELSE 0)
           /\ TimesIn(rejSteps, j) = (IF hist[j].accept THEN 0 ELSE 1)
    /\ (pc = "returned" =>
          Len(accepted) + Len(rejected) =
            (args.samples - 1)
              - Cardinality({j \in 1..(args.samples - 1) : j < burn_in_idx}))
    /\ (pc = "returned" /\ args.burn_num = 0 =>
          Len(accepted) + Len(rejected) = args.samples - 1)

C2_Witness ==
  /\ pc = "returned"
  /\ args.samples = 3
  /\ burn_in_idx = 1
  /\ Len(accepted) = 1
  /\ Len(rejected) = 1

\* C3: with samples < 1 or burn_in outside [0, 1] the call only ever raises:
\* it never enters the loop or returns, calls no callable and consumes no
\* random value.
C3_InvalidArgumentsRaise ==
  (args.samples < 1 \/ args.burn_num < 0 \/ args.burn_num > BurnDen) =>
    /\ pc \in {"entry", "raised"}
    /\ calls = NoCalls
    /\ pos = 0
    /\ tape = <<>>

C3_Witness ==
  /\ pc = "raised"
  /\ args.x_init.kind = "scalar"
  /\ args.samples = 0
  /\ args.burn_num = 0

\* C4: an initial state of an unsupported representation makes the call
\* raise before the loop starts and before any proposal or scoring call.
C4_UnsupportedXInitRaises ==
  args.x_init.kind = "other" =>
    /\ pc \in {"entry", "raised"}
    /\ calls = NoCalls

\* C5 as stated: a step with delta >= 0 accepts with no uniform draw, a step
\* with delta < 0 consumes exactly one, and the number of uniform draws of a
\* call is the number of its steps with delta < 0.
C5_DrawIffDeltaNegative ==
  InCall =>
    /\ \A j \in Steps :
         /\ FGeq0(hist[j].delta) => hist[j].accept /\ ~hist[j].drew
         /\ FLess0(hist[j].delta) => hist[j].drew
    /\ calls.uniform = Cardinality({j \in Steps : FLess0(hist[j].delta)})

\* C5 amended: the test is on the computed ratio a = exp(delta).  A step with
\* a >= 1 (every delta >= 0, and every negative delta whose exponential
\* rounds to 1.0) accepts with no uniform draw; every other step (a < 1, or
\* a NaN) consumes exactly one; the number of uniform draws of a call is the
\* number of its steps where a >= 1 is false.
C5_DrawIffRatioBelowOne ==
  InCall =>
    /\ \A j \in Steps :
         /\ FGeq0(hist[j].delta) => ~hist[j].a.nan /\ hist[j].a.v >= 1000
         /\ (~hist[j].a.nan /\ hist[j].a.v >= 1000) =>
              hist[j].accept /\ ~hist[j].drew /\ hist[j].x = hist[j].cand
         /\ (hist[j].a.nan \/ hist[j].a.v < 1000) => hist[j].drew
    /\ calls.uniform =
         Cardinality({j \in Steps : hist[j].a.nan \/ hist[j].a.v < 1000})
    /\ pos = calls.proposal + calls.uniform

C5_Witness ==
  /\ pc = "returned"
  /\ \E j \in Steps :
       /\ FLess0(hist[j].delta)
       /\ hist[j].accept
       /\ ~hist[j].drew
  /\ pos = calls.proposal

\* C6: a second call with identical arguments on the re-seeded random
\* stream goes through the same steps and current states and returns the
\* same accepted and rejected sequences.
C6_Deterministic ==
  (run = 2 /\ InCall /\ args = prev.args) =>
    /\ Len(hist) <= Len(prev.hist)
    /\ \A j \in Steps : hist[j] = prev.hist[j]
    /\ (pc = "returned" =>
          /\ Len(hist) = Len(prev.hist)
          /\ accepted = prev.accepted
          /\ rejected = prev.rejected
          /\ calls = prev.calls)

C6_Witness ==
  /\ run = 2
  /\ pc = "returned"
  /\ args = prev.args
  /\ Len(accepted) >= 1
  /\ Len(rejected) >= 1
  /\ calls.uniform >= 1

\* C7 as stated: at every step with delta < 0 a uniform u is drawn and the
\* candidate is accepted iff u < a.
C7_StrictWhenDeltaNegative ==
  InCall =>
    \A j \in Steps :
      FLess0(hist[j].delta) =>
        /\ hist[j].drew
        /\ hist[j].accept <=> (hist[j].u < hist[j].a.v)

\* C7 amended: at every step whose computed ratio a = exp(delta) is < 1 a
\* uniform u is drawn and the candidate is accepted iff u < a: u = a and
\* u > a reject, and a draw of 1.0 rejects every candidate with a < 1.
C7_StrictWhenRatioBelowOne ==
  InCall =>
    \A j \in Steps :
      (~hist[j].a.nan /\ hist[j].a.v < 1000) =>
        /\ FLess0(hist[j].delta)
        /\ hist[j].drew
        /\ hist[j].accept <=> (hist[j].u < hist[j].a.v)
        /\ hist[j].u = 1000 => ~hist[j].accept

C7_Witness ==
  /\ pc = "returned"
  /\ \E j \in Steps :
       /\ hist[j].a = Ratio(368)
       /\ hist[j].u = 368
       /\ ~hist[j].accept
  /\ \E j \in Steps :
       /\ hist[j].a = Ratio(368)
       /\ hist[j].u = 0
       /\ hist[j].accept

\* C8: a step before burn_in_idx that accepts moves the current state to the
\* candidate and leaves accepted and rejected as they were; a call on the
\* same random stream with another burn_in goes through the same current
\* states.
C8_BurnInKeepsEvolution ==
  InCall =>
    /\ \A j \in Steps :
         (hist[j].i < burn_in_idx /\ hist[j].accept) =>
           /\ hist[j].x = hist[j].cand
           /\ hist[j].nacc = (IF j = 1 THEN 0 ELSE hist[j - 1].nacc)
           /\ hist[j].nrej = (IF j = 1 THEN 0 ELSE hist[j - 1].nrej)
    /\ run = 2 =>
         /\ Len(hist) <= Len(prev.hist)
         /\ \A j \in Steps :
              /\ hist[j].cand = prev.hist[j].cand
              /\ hist[j].x = prev.hist[j].x
         /\ (Len(hist) > 0 => x = prev.hist[Len(hist)].x)

C8_Witness ==
  /\ run = 2
  /\ pc = "returned"
  /\ prev.args.burn_num = BurnDen
  /\ args.burn_num = 0
  /\ Len(prev.hist) = 2
  /\ prev.hist[1].accept
  /\ prev.hist[1].x # prev.hist[1].from
  /\ prev.accepted = <<>>
  /\ Len(accepted) >= 1

\* Index of the most recent step that accepted, 0 when none has.
LastAccepted ==
  IF \E j \in Steps : hist[j].accept
  THEN CHOOSE j \in Steps :
         hist[j].accept /\ \A m \in Steps : hist[m].accept => m <= j
  ELSE 0

\* C9: after a step the current state is the candidate if the step accepted
\* and is unchanged otherwise; the next proposal starts from that state; x is
\* x_init or the candidate of the most recent accepted step, and is the last
\* element of accepted when that step was at or past burn_in_idx.
C9_CurrentState ==
  InCall =>
    /\ \A j \in Steps :
         /\ hist[j].x = (IF hist[j].accept THEN hist[j].cand ELSE hist[j].from)
         /\ hist[j].from = (IF j = 1 THEN args.x_init.val ELSE hist[j - 1].x)
    /\ x = (IF LastAccepted = 0 THEN args.x_init.val
            ELSE hist[LastAccepted].cand)
    /\ (LastAccepted > 0 /\ hist[LastAccepted].i >= burn_in_idx) =>
         /\ Len(accepted) > 0
         /\ accepted[Len(accepted)] = x

C9_Witness ==
  /\ pc = "returned"
  /\ Len(hist) = 2
  /\ hist[1].accept
  /\ ~hist[2].accept
  /\ hist[2].cand # x
  /\ x # args.x_init.val
  /\ Len(accepted) = 1

\* What holds of the step count in every state of a call.
C10_Counts ==
  InCall =>
    /\ Len(hist) = i - 1
    /\ i <= args.samples
    /\ \A j \in Steps : hist[j].i = j
    /\ calls.proposal = Len(hist)
    /\ calls.posterior = 2 * Len(hist)
    /\ Tagged
    /\ Len(accepted) + Len(rejected) <= calls.proposal
    /\ (pc = "returned" => calls.proposal = args.samples - 1)
    /\ (args.samples = 1 =>
          accepted = <<>> /\ rejected = <<>> /\ calls = NoCalls /\ pos = 0)

\* C10: a call with valid arguments returns, after exactly samples - 1 steps
\* i = 1 .. samples - 1 with one proposal each; only candidates are recorded,
\* never the initial state as such; with samples = 1 there is no proposal
\* and both sequences are empty.
C10_Terminates ==
  /\ []C10_Counts
  /\ [](pc = "loop" => <>(pc = "returned"))

C10_Witness ==
  /\ pc = "returned"
  /\ run = 1
  /\ args.samples = 3
  /\ calls.proposal = 2
  /\ calls.uniform = 0

====
